---- MODULE Spec2Model ----
(***************************************************************************)
(* LLMSession (Node.js): the Automator orchestrator, the BrowserManager    *)
(* session store and the ChatGPTProvider login / prompt state machines.    *)
(*                                                                         *)
(* Strings are sequences of one-character strings, so that the template    *)
(* substitution of processChain is computed character by character.        *)
(***************************************************************************)
EXTENDS Integers, Sequences, FiniteSets, TLC

\* ------------------------------------------------------------ bounds
\* longest chain element drawn for the template-substitution specification
MaxTplLen == 4
\* longest previous response drawn for the template-substitution specification
MaxPrevLen == 2
\* longest chain handed to processChain
MaxChain == 2
\* browser contexts left open by earlier init() calls that one Automator may
\* accumulate
MaxOrphans == 1
\* assistant messages the page of one conversation comes to hold
MaxMessages == 2

\* ------------------------------------------------------------ strings
Chars == {"{", "}", "$", "&", "a"}

StrUpTo(n) == UNION {[1..k -> Chars] : k \in 0..n}

Token1 == <<"{", "}">>
Token2 == <<"{", "{", "}", "}">>

\* String.prototype.indexOf, 1-based; 0 when t does not occur in s
IndexOf(s, t) ==
    LET hits == {k \in 1..(Len(s) - Len(t) + 1) : SubSeq(s, k, k + Len(t) - 1) = t}
    IN  IF hits = {} THEN 0 ELSE CHOOSE k \in hits : \A j \in hits : k <= j

\* String.prototype.includes
Includes(s, t) == IndexOf(s, t) # 0

\* GetSubstitution of String.prototype.replace for a string pattern (no
\* capture groups): $$ -> $, $& -> the match, $` -> the text before the
\* match, $' -> the text after it; every other character is copied.
RECURSIVE GetSubstitution(_, _, _, _)
GetSubstitution(repl, matched, before, after) ==
    IF repl = <<>> THEN <<>>
    ELSE IF Head(repl) = "$" /\ Len(repl) >= 2
         THEN LET c == repl[2]
                  rest == SubSeq(repl, 3, Len(repl))
              IN  IF c = "$" THEN <<"$">> \o GetSubstitution(rest, matched, before, after)
                  ELSE IF c = "&" THEN matched \o GetSubstitution(rest, matched, before, after)
                  ELSE IF c = "`" THEN before \o GetSubstitution(rest, matched, before, after)
                  ELSE IF c = "'" THEN after \o GetSubstitution(rest, matched, before, after)
                  ELSE <<"$">> \o GetSubstitution(Tail(repl), matched, before, after)
         ELSE <<Head(repl)>> \o GetSubstitution(Tail(repl), matched, before, after)

\* s.replace(pat, repl) with a string pattern: the first occurrence only
Replace(s, pat, repl) ==
    LET k == IndexOf(s, pat)
        before == SubSeq(s, 1, k - 1)
        after == SubSeq(s, k + Len(pat), Len(s))
    IN  IF k = 0 THEN s
        ELSE before \o GetSubstitution(repl, pat, before, after) \o after

\* ------------------------------------------------------------ chain elements
\* the prompt-transform functions handed to processChain in the model
FnNames == {"echo", "braces"}

ApplyFn(f, prev) ==
    IF f = "echo" THEN prev ELSE Token1 \o prev

StrItem(s) == [kind |-> "string", s |-> s, f |-> "none"]
FnItem(f) == [kind |-> "function", s |-> <<>>, f |-> f]

\* the template branch of processChain, for a string element
RenderString(p, lastResponse) ==
    IF Includes(p, Token1) THEN Replace(p, Token1, lastResponse)
    ELSE IF Includes(p, Token2) THEN Replace(p, Token2, lastResponse)
    ELSE p

\* faulty variant: the template substitution is applied to a function's result too
RenderItem_templatesFunctions(promptItem, lastResponse) ==
    IF promptItem.kind = "function"
    THEN RenderString(ApplyFn(promptItem.f, lastResponse), lastResponse)
    ELSE RenderString(promptItem.s, lastResponse)

\* currentPrompt of one loop iteration of processChain
RenderItem(promptItem, lastResponse) ==
    IF promptItem.kind = "function" THEN ApplyFn(promptItem.f, lastResponse)
    ELSE RenderString(promptItem.s, lastResponse)

\* the arguments a chain element's function is called with: <<prev>> when
\* the element is a function, <<>> when it is a string (nothing is called)
FnArgument(promptItem, lastResponse) ==
    IF promptItem.kind = "function" THEN <<lastResponse>> ELSE <<>>

\* ------------------------------------------------------------ inputs
\* replies of the assistant read back from the page
Replies == {<<"a">>, <<"$", "&">>}

\* prompts handed to processPrompt directly
Prompts == {<<"a">>}

ChainItems == {StrItem(Token1), FnItem("braces")}

Chains == UNION {[1..k -> ChainItems] : k \in 0..MaxChain}

\* the literal example of the templating fallback
TastyTemplate == <<"{", "{", "}", "}", " ", "i", "s", " ", "t", "a", "s", "t", "y">>
Mango == <<"m", "a", "n", "g", "o">>
MangoIsTasty == <<"m", "a", "n", "g", "o", " ", "i", "s", " ", "t", "a", "s", "t", "y">>

\* for (let i = 0; i < 30; i++) of the login result polling
PollLimit == 30

\* ------------------------------------------------------------ state
VARIABLES
    cfg,            \* constructor arguments and environment of the Automator
    browserManager, \* this.browserManager has been assigned
    context,        \* this.browserManager.context: "null", or a context "open" or "closed"
    provider,       \* this.provider: "null", or where its page lives: in the
                    \* "current" context, or in the context of an earlier
                    \* BrowserManager ("orphanOpen", "orphanClosed")
    orphans,        \* open contexts that no BrowserManager of the Automator references
    initialized,    \* an init() call has returned normally
    site,           \* what the web application shows: anon/form/pending/otp/otpSent/authed
    sessionFile,    \* the exported session-state file exists
    op,             \* the public operation called last ("none" before the first)
    pc,             \* position inside it, "idle" once it has returned or thrown
    result,         \* "pending", then "ok" or the error thrown
    calls,          \* driver requests issued by the current (or last) public call
    i,              \* loop counter of the login result polling
    chain,          \* prompts argument of processChain
    idx,            \* 1-based loop index of processChain
    lastResponse,   \* lastResponse of processChain
    responses,      \* responses of processChain
    sent,           \* prompts filled and sent to the page by the current call, in order
    replies,        \* texts the page gave back to the current call, in order
    fnArgs,         \* per chain element processed, the arguments its function got
    cur,            \* prompt argument of the sendPrompt in flight
    ret,            \* value returned by the last successful public call
    tplItem,        \* template-substitution specification: the chain element
    tplPrev,        \* template-substitution specification: the previous response
    tplOut,         \* template-substitution specification: <<rendered prompt>> once applied
    callPc,         \* overlapping-calls specification: per caller, the position of its processPrompt
    observed,       \* overlapping-calls specification: per caller, what its call saw of
                    \* the generating indicator and of the send control
    callResult,     \* overlapping-calls specification: per caller, "ok" or the error thrown
    textarea,       \* overlapping-calls specification: whose prompt the input field holds
    submitted,      \* overlapping-calls specification: per caller, whose prompt its click sent
    messages,       \* overlapping-calls specification: assistant messages on the page
    replyDue,       \* overlapping-calls specification: the page owes a reply to a submission
    msgsAtSubmit,   \* overlapping-calls specification: per caller, the assistant messages
                    \* on the page when its prompt was submitted
    returned        \* overlapping-calls specification: per caller, which assistant message
                    \* (counted from 1, 0 for none) its call returned the text of

cfgVars == <<cfg>>
bmVars == <<browserManager, context, orphans, initialized>>
envVars == <<site, sessionFile>>
chainVars == <<chain, idx, lastResponse, responses, fnArgs>>
tplVars == <<tplItem, tplPrev, tplOut>>
chatVars == <<messages, replyDue, msgsAtSubmit, returned>>
pageVars == <<callPc, observed, callResult, textarea, submitted, chatVars>>
vars == <<cfg, browserManager, context, provider, orphans, initialized, site, sessionFile,
          op, pc, result, calls, i, chain, idx, lastResponse, responses,
          sent, replies, fnArgs, cur, ret, tplItem, tplPrev, tplOut,
          callPc, observed, callResult, textarea, submitted,
          messages, replyDue, msgsAtSubmit, returned>>

\* where `this.credentials?.x || process.env.CHATGPT_X` finds a value: in the
\* constructor argument (the environment is then not looked at), in the
\* environment only, or nowhere
CredentialSources == {"explicit", "env", "none"}

AllConfigs ==
    [providerName : {"chatgpt", "other"},
     email : CredentialSources, password : CredentialSources,
     method : {"email", "google"},
     onOtpRequired : BOOLEAN,
     sessionPath : BOOLEAN]

\* an argument that is never read stays at its default: the credentials of
\* an unknown provider, the method and the OTP supplier of an Automator
\* without credentials (login() is never called on them)
Configs ==
    {c \in AllConfigs :
        /\ c.providerName # "chatgpt" => c.email = "none" /\ c.password = "none"
        /\ (c.email = "none" \/ c.password = "none")
              => c.method = "email" /\ ~c.onOtpRequired}

\* the callers that can have a processPrompt in flight at the same time
Callers == {"A", "B"}

NothingObserved == [indicator |-> "none", send |-> "none"]

\* no call is in flight and the input field is empty
NoCallers ==
    /\ callPc = [c \in Callers |-> "idle"]
    /\ observed = [c \in Callers |-> NothingObserved]
    /\ callResult = [c \in Callers |-> "none"]
    /\ textarea = "empty"
    /\ submitted = [c \in Callers |-> "none"]
    /\ messages = 0
    /\ replyDue = FALSE
    /\ msgsAtSubmit = [c \in Callers |-> 0]
    /\ returned = [c \in Callers |-> 0]

\* the state after `new Automator(...)`
InitAutomator ==
    /\ NoCallers
    /\ browserManager = FALSE
    /\ context = "null"
    /\ provider = "null"
    /\ orphans = 0
    /\ initialized = FALSE
    /\ op = "none"
    /\ pc = "idle"
    /\ result = "none"
    /\ calls = {}
    /\ i = 0
    /\ chain = <<>>
    /\ idx = 1
    /\ lastResponse = <<>>
    /\ responses = <<>>
    /\ sent = <<>>
    /\ replies = <<>>
    /\ fnArgs = <<>>
    /\ cur = <<>>
    /\ ret = <<>>

Init ==
    /\ cfg \in Configs
    /\ site \in {"anon", "authed"}
    /\ sessionFile = FALSE
    /\ InitAutomator
    /\ tplItem = StrItem(<<>>)
    /\ tplPrev = <<>>
    /\ tplOut = <<>>

\* ------------------------------------------------------------ helpers
\* an error propagates out of the public operation in flight
Throw(err) ==
    /\ result' = err
    /\ pc' = "idle"
    /\ UNCHANGED op

\* the public operation in flight returns normally
Return ==
    /\ result' = "ok"
    /\ pc' = "idle"
    /\ UNCHANGED op

\* a public call begins: the locals of the call before it are gone
NewCall ==
    /\ result' = "pending"
    /\ calls' = {}
    /\ i' = 0
    /\ sent' = <<>>
    /\ replies' = <<>>
    /\ ret' = <<>>

NoChain ==
    /\ chain' = <<>>
    /\ idx' = 1
    /\ lastResponse' = <<>>
    /\ responses' = <<>>
    /\ fnArgs' = <<>>

\* const email = this.credentials?.email || process.env.CHATGPT_EMAIL, and
\* the same for the password; init() needs both
HasCredentials ==
    /\ cfg.email # "none"
    /\ cfg.password # "none"

\* what one dismissal block of handleDialogs() meets: no dialog, a dialog
\* that is clicked away, or a dialog whose dismissal click throws
DialogOutcomes == {"absent", "dismissed", "failed"}

\* driver requests of one dismissal block: the visibility check, the click
\* when the dialog is visible, the settle wait when the click returned
DialogCalls(dialog) ==
    CASE dialog = "absent" -> {"isVisible"}
      [] dialog = "dismissed" -> {"isVisible", "click", "waitForTimeout"}
      [] dialog = "failed" -> {"isVisible", "click"}

\* faulty variant: the dismissal blocks have no catch
handleDialogs_uncaught(upsell, tempChat) ==
    [calls |-> DialogCalls(upsell) \cup DialogCalls(tempChat),
     threw |-> "failed" \in {upsell, tempChat}]

\* handleDialogs(): the upsell block, then the "Temporary Chat" block, each
\* in a try with an empty catch: the method returns normally whatever the
\* driver did
handleDialogs(upsell, tempChat) ==
    [calls |-> DialogCalls(upsell) \cup DialogCalls(tempChat),
     threw |-> FALSE]

\* driver requests of the credential entry of login(), per method
EntryCalls(method) ==
    IF method = "google"
    THEN {"waitForSelector", "fill", "click", "click:login_google_btn"}
    ELSE {"waitForSelector", "fill", "click"}

\* the catch block of login(): screenshot, then the error is thrown again
LoginFailure(err, issued) ==
    /\ calls' = calls \cup issued \cup {"screenshot"}
    /\ Throw(err)

\* ------------------------------------------------------------ Automator.init
\* init(): this.browserManager = new BrowserManager()
Automator_init ==
    /\ pc = "idle"
    /\ context = "open" => orphans < MaxOrphans
    /\ browserManager' = TRUE
    /\ context' = "null"
    /\ orphans' = IF context = "open" THEN orphans + 1 ELSE orphans
    /\ provider' = IF provider = "current"
                   THEN (IF context = "open" THEN "orphanOpen" ELSE "orphanClosed")
                   ELSE provider
    /\ op' = "init"
    /\ pc' = "start"
    /\ NewCall /\ NoChain /\ cur' = <<>>
    /\ UNCHANGED <<cfg, initialized, envVars, tplVars, pageVars>>

\* BrowserManager.start(): the persistent context launches, the cookies of
\* the session file are imported when it exists, the first page is taken
BrowserManager_start ==
    /\ op = "init" /\ pc = "start"
    /\ context' = "open"
    /\ calls' = calls \cup {"launchPersistentContext"}
                      \cup (IF cfg.sessionPath /\ sessionFile THEN {"addCookies"} ELSE {})
    /\ pc' = "grant"
    /\ UNCHANGED <<cfg, browserManager, orphans, initialized, provider, envVars, op, result, i,
                   chainVars, sent, replies, cur, ret, tplVars, pageVars>>

\* BrowserManager.start(): launchPersistentContext throws
BrowserManager_start_fail ==
    /\ op = "init" /\ pc = "start"
    /\ calls' = calls \cup {"launchPersistentContext"}
    /\ Throw("LaunchError")
    /\ UNCHANGED <<cfg, bmVars, provider, envVars, i, chainVars, sent, replies, cur, ret, tplVars, pageVars>>

\* init(): grantPermissions, then the provider is built or the name rejected
Automator_init_provider ==
    /\ op = "init" /\ pc = "grant"
    /\ calls' = calls \cup {"grantPermissions"}
    /\ IF cfg.providerName = "chatgpt"
       THEN /\ provider' = "current"
            /\ pc' = "isAuthenticated"
            /\ UNCHANGED <<op, result>>
       ELSE /\ Throw("UnknownProviderError")
            /\ UNCHANGED provider
    /\ UNCHANGED <<cfg, bmVars, envVars, i, chainVars, sent, replies, cur, ret, tplVars, pageVars>>

\* BrowserManager.isAuthenticated(): goto, then a 5s wait for the profile
\* marker; a failed navigation and a timeout both give false
BrowserManager_isAuthenticated ==
    /\ op = "init" /\ pc = "isAuthenticated"
    /\ calls' = calls \cup {"goto", "waitForSelector"}
    /\ site' = IF site = "authed" THEN "authed" ELSE "anon"
    /\ \E seen \in BOOLEAN :
         /\ seen => site = "authed"
         /\ IF seen
            THEN Return /\ initialized' = TRUE
            ELSE pc' = "credentials" /\ UNCHANGED <<op, result, initialized>>
    /\ UNCHANGED <<cfg, browserManager, context, orphans, provider, sessionFile, i, chainVars, sent, replies, cur, ret, tplVars, pageVars>>

\* faulty variant: login() is called without the credentials check
Automator_init_credentials_unchecked ==
    /\ op = "init" /\ pc = "credentials"
    /\ pc' = "login"
    /\ UNCHANGED <<cfg, bmVars, provider, envVars, op, result, calls, i,
                   chainVars, sent, replies, cur, ret, tplVars, pageVars>>

\* init(): the credentials are resolved and checked before login() is called
Automator_init_credentials ==
    /\ op = "init" /\ pc = "credentials"
    /\ IF ~HasCredentials
       THEN Throw("ConfigurationError")
       ELSE pc' = "login" /\ UNCHANGED <<op, result>>
    /\ UNCHANGED <<cfg, bmVars, provider, envVars, calls, i, chainVars, sent, replies, cur, ret, tplVars, pageVars>>

\* faulty variant: the session is saved whether or not a path is set
Automator_init_saveSession_always ==
    /\ op = "init" /\ pc = "login_done"
    /\ calls' = calls \cup {"storageState"} /\ sessionFile' = TRUE
    /\ Return
    /\ initialized' = TRUE
    /\ UNCHANGED <<cfg, browserManager, context, orphans, provider, site, i,
                   chainVars, sent, replies, cur, ret, tplVars, pageVars>>

\* init(): login() returned true; the session is saved when a path is set
Automator_init_saveSession ==
    /\ op = "init" /\ pc = "login_done"
    /\ IF cfg.sessionPath
       THEN calls' = calls \cup {"storageState"} /\ sessionFile' = TRUE
       ELSE UNCHANGED <<calls, sessionFile>>
    /\ Return
    /\ initialized' = TRUE
    /\ UNCHANGED <<cfg, browserManager, context, orphans, provider, site, i,
                   chainVars, sent, replies, cur, ret, tplVars, pageVars>>

\* ------------------------------------------------------------ ChatGPTProvider.login
\* login(): goto(URL), then handleDialogs()
ChatGPT_login_goto ==
    /\ op = "init" /\ pc = "login"
    /\ \E upsell, tempChat \in DialogOutcomes :
         LET dialogs == handleDialogs(upsell, tempChat) IN
           /\ calls' = calls \cup {"goto"} \cup dialogs.calls
           /\ IF dialogs.threw
              THEN Throw("DialogError")
              ELSE pc' = "login_check" /\ UNCHANGED <<op, result>>
    /\ site' = IF site = "authed" THEN "authed" ELSE "anon"
    /\ UNCHANGED <<cfg, bmVars, provider, sessionFile, i,
                   chainVars, sent, replies, cur, ret, tplVars, pageVars>>

\* login(): goto(URL) throws, outside every try block
ChatGPT_login_goto_fail ==
    /\ op = "init" /\ pc = "login"
    /\ calls' = calls \cup {"goto"}
    /\ Throw("NavigationError")
    /\ UNCHANGED <<cfg, bmVars, provider, envVars, i, chainVars, sent, replies, cur, ret, tplVars, pageVars>>

\* login(): 3s wait for the profile marker; "Already logged in." or go on
ChatGPT_login_checkExisting ==
    /\ op = "init" /\ pc = "login_check"
    /\ calls' = calls \cup {"waitForSelector"}
    /\ \E seen \in BOOLEAN :
         /\ seen => site = "authed"
         /\ pc' = IF seen THEN "login_done" ELSE "login_landing"
    /\ UNCHANGED <<cfg, bmVars, provider, envVars, op, result, i,
                   chainVars, sent, replies, cur, ret, tplVars, pageVars>>

\* login(): click on the landing login button, then the credentials check
ChatGPT_login_landing ==
    /\ op = "init" /\ pc = "login_landing"
    /\ calls' = calls \cup {"click"}
    /\ \E ok \in BOOLEAN :
         /\ ok => site = "anon"
         /\ IF ~ok
            THEN Throw("LoginUIError") /\ UNCHANGED site
            ELSE /\ site' = "form"
                 /\ IF HasCredentials
                    THEN pc' = "login_entry" /\ UNCHANGED <<op, result>>
                    ELSE Throw("CredentialsRequiredError")
    /\ UNCHANGED <<cfg, bmVars, provider, sessionFile, i, chainVars, sent, replies, cur, ret, tplVars, pageVars>>

\* login(): the email or google credential entry, all steps succeeding
ChatGPT_login_entry ==
    /\ op = "init" /\ pc = "login_entry"
    /\ calls' = calls \cup EntryCalls(cfg.method)
    /\ site' = "pending"
    /\ pc' = "login_poll"
    /\ i' = 0
    /\ UNCHANGED <<cfg, bmVars, provider, sessionFile, op, result,
                   chainVars, sent, replies, cur, ret, tplVars, pageVars>>

\* login(): a step of the credential entry throws
ChatGPT_login_entry_fail ==
    /\ op = "init" /\ pc = "login_entry"
    /\ LoginFailure("LoginError", {"waitForSelector"})
    /\ UNCHANGED <<cfg, bmVars, provider, envVars, i, chainVars, sent, replies, cur, ret, tplVars, pageVars>>

\* polling iteration: the profile marker is visible
ChatGPT_login_poll_success ==
    /\ op = "init" /\ pc = "login_poll" /\ i < PollLimit
    /\ site = "authed"
    /\ calls' = calls \cup {"isVisible"}
    /\ pc' = "login_done"
    /\ UNCHANGED <<cfg, bmVars, provider, envVars, op, result, i,
                   chainVars, sent, replies, cur, ret, tplVars, pageVars>>

\* faulty variant: without a supplier the OTP field is ignored and polling goes on
ChatGPT_login_poll_otpUnavailable_keepsPolling ==
    /\ op = "init" /\ pc = "login_poll" /\ i < PollLimit
    /\ site = "otp"
    /\ ~cfg.onOtpRequired
    /\ calls' = calls \cup {"isVisible", "waitForTimeout"}
    /\ i' = i + 1
    /\ UNCHANGED <<cfg, bmVars, provider, envVars, op, pc, result,
                   chainVars, sent, replies, cur, ret, tplVars, pageVars>>

\* polling iteration: the OTP field is visible and no supplier is configured
ChatGPT_login_poll_otpUnavailable ==
    /\ op = "init" /\ pc = "login_poll" /\ i < PollLimit
    /\ site = "otp"
    /\ ~cfg.onOtpRequired
    /\ LoginFailure("OtpUnavailableError", {"isVisible"})
    /\ UNCHANGED <<cfg, bmVars, provider, envVars, i, chainVars, sent, replies, cur, ret, tplVars, pageVars>>

\* polling iteration: the OTP field is visible; the supplied code is filled
\* and submitted
ChatGPT_login_poll_otp ==
    /\ op = "init" /\ pc = "login_poll" /\ i < PollLimit
    /\ site = "otp"
    /\ cfg.onOtpRequired
    /\ calls' = calls \cup {"isVisible", "onOtpRequired", "fill:otp_input", "click:otp_validate"}
    /\ site' = "otpSent"
    /\ pc' = "login_otp_wait"
    /\ UNCHANGED <<cfg, bmVars, provider, sessionFile, op, result, i,
                   chainVars, sent, replies, cur, ret, tplVars, pageVars>>

\* faulty variant: the loop counter is never advanced
ChatGPT_login_poll_tick_forever ==
    /\ op = "init" /\ pc = "login_poll" /\ i < PollLimit
    /\ site \notin {"authed", "otp"}
    /\ calls' = calls \cup {"isVisible", "waitForTimeout"}
    /\ UNCHANGED <<cfg, bmVars, provider, envVars, op, pc, result, i,
                   chainVars, sent, replies, cur, ret, tplVars, pageVars>>

\* polling iteration: neither is visible; waitForTimeout(1000) and i++
ChatGPT_login_poll_tick ==
    /\ op = "init" /\ pc = "login_poll" /\ i < PollLimit
    /\ site \notin {"authed", "otp"}
    /\ calls' = calls \cup {"isVisible", "waitForTimeout"}
    /\ i' = i + 1
    /\ UNCHANGED <<cfg, bmVars, provider, envVars, op, pc, result,
                   chainVars, sent, replies, cur, ret, tplVars, pageVars>>

\* the 30s wait for the profile marker after the loop, or after the OTP
LoginWaitPc == (pc = "login_poll" /\ i = PollLimit) \/ pc = "login_otp_wait"

ChatGPT_login_wait ==
    /\ op = "init" /\ LoginWaitPc
    /\ site = "authed"
    /\ calls' = calls \cup {"waitForSelector"}
    /\ pc' = "login_done"
    /\ UNCHANGED <<cfg, bmVars, provider, envVars, op, result, i,
                   chainVars, sent, replies, cur, ret, tplVars, pageVars>>

\* faulty variant: the timeout of the last wait is taken for a success
ChatGPT_login_wait_timeout_returnsTrue ==
    /\ op = "init" /\ LoginWaitPc
    /\ site # "authed"
    /\ calls' = calls \cup {"waitForSelector"}
    /\ pc' = "login_done"
    /\ UNCHANGED <<cfg, bmVars, provider, envVars, op, result, i,
                   chainVars, sent, replies, cur, ret, tplVars, pageVars>>

ChatGPT_login_wait_timeout ==
    /\ op = "init" /\ LoginWaitPc
    /\ site # "authed"
    /\ LoginFailure("LoginTimeoutError", {"waitForSelector"})
    /\ UNCHANGED <<cfg, bmVars, provider, envVars, i, chainVars, sent, replies, cur, ret, tplVars, pageVars>>

\* ------------------------------------------------------------ the web application
\* the credentials were submitted: the application asks for a passcode
Site_showOtp ==
    /\ site = "pending"
    /\ site' = "otp"
    /\ UNCHANGED <<cfg, bmVars, provider, sessionFile, op, pc, result, calls, i,
                   chainVars, sent, replies, cur, ret, tplVars, pageVars>>

\* the credentials (or the passcode) are accepted: the profile marker shows
Site_authenticate ==
    /\ site \in {"pending", "otpSent"}
    /\ site' = "authed"
    /\ UNCHANGED <<cfg, bmVars, provider, sessionFile, op, pc, result, calls, i,
                   chainVars, sent, replies, cur, ret, tplVars, pageVars>>

\* ------------------------------------------------------------ Automator.processPrompt
\* a caller calls processPrompt(p)
Call_processPrompt ==
    /\ pc = "idle"
    /\ \E p \in Prompts : cur' = p
    /\ op' = "prompt"
    /\ pc' = "processPrompt"
    /\ NewCall /\ NoChain
    /\ UNCHANGED <<cfg, bmVars, provider, envVars, tplVars, pageVars>>

\* faulty variant: the provider check is missing
Automator_processPrompt_unguarded ==
    /\ op \in {"prompt", "chain"} /\ pc = "processPrompt"
    /\ pc' = "sendPrompt"
    /\ UNCHANGED <<cfg, bmVars, provider, envVars, op, result, calls, i,
                   chainVars, sent, replies, cur, ret, tplVars, pageVars>>

\* processPrompt(prompt): if (!this.provider) throw; else provider.sendPrompt
Automator_processPrompt ==
    /\ op \in {"prompt", "chain"} /\ pc = "processPrompt"
    /\ IF provider = "null"
       THEN Throw("NotInitializedError")
       ELSE pc' = "sendPrompt" /\ UNCHANGED <<op, result>>
    /\ UNCHANGED <<cfg, bmVars, provider, envVars, calls, i, chainVars, sent, replies, cur, ret, tplVars, pageVars>>

\* ------------------------------------------------------------ ChatGPTProvider.sendPrompt
\* the page a provider drives is usable while its browser context is open
PageOpen ==
    \/ provider = "orphanOpen"
    \/ provider = "current" /\ context = "open"

\* sendPrompt(): handleDialogs(), then the textarea is filled and the send
\* control clicked
ChatGPT_sendPrompt_submit ==
    /\ pc = "sendPrompt"
    /\ PageOpen
    /\ \E upsell, tempChat \in DialogOutcomes :
         LET dialogs == handleDialogs(upsell, tempChat) IN
           IF dialogs.threw
           THEN /\ calls' = calls \cup dialogs.calls
                /\ Throw("DialogError")
                /\ UNCHANGED sent
           ELSE /\ calls' = calls \cup dialogs.calls
                               \cup {"waitForSelector", "fill", "isDisabled", "click"}
                /\ sent' = Append(sent, cur)
                /\ pc' = "sendPrompt_wait"
                /\ UNCHANGED <<op, result>>
    /\ UNCHANGED <<cfg, bmVars, provider, envVars, i,
                   chainVars, replies, cur, ret, tplVars, pageVars>>

\* sendPrompt(): a step of the submission throws ("Failed to send prompt")
ChatGPT_sendPrompt_submit_fail ==
    /\ pc = "sendPrompt"
    /\ calls' = calls \cup {"isVisible", "waitForSelector"}
    /\ Throw("PromptSubmissionError")
    /\ UNCHANGED <<cfg, bmVars, provider, envVars, i, chainVars, sent, replies, cur, ret, tplVars, pageVars>>

\* sendPrompt(): the generating indicator came and went, or it never came
\* and the send control is visible
ChatGPT_sendPrompt_complete ==
    /\ pc = "sendPrompt_wait"
    /\ \E indicator \in BOOLEAN :
         calls' = calls \cup {"waitForSelector"}
                        \cup (IF indicator THEN {} ELSE {"isVisible"})
    /\ pc' = "sendPrompt_extract"
    /\ UNCHANGED <<cfg, bmVars, provider, envVars, op, result, i,
                   chainVars, sent, replies, cur, ret, tplVars, pageVars>>

\* faulty variant: after a response timeout the prompt is submitted again
ChatGPT_sendPrompt_timeout_retries ==
    /\ pc = "sendPrompt_wait"
    /\ calls' = calls \cup {"waitForSelector", "isVisible"}
    /\ pc' = "sendPrompt"
    /\ UNCHANGED <<cfg, bmVars, provider, envVars, op, result, i,
                   chainVars, sent, replies, cur, ret, tplVars, pageVars>>

\* sendPrompt(): a wait on the indicator timed out and the send control is
\* not visible
ChatGPT_sendPrompt_timeout ==
    /\ pc = "sendPrompt_wait"
    /\ calls' = calls \cup {"waitForSelector", "isVisible"}
    /\ Throw("ResponseTimeoutError")
    /\ UNCHANGED <<cfg, bmVars, provider, envVars, i, chainVars, sent, replies, cur, ret, tplVars, pageVars>>

\* sendPrompt() returns the text r of the last assistant message: to the
\* caller of processPrompt, or into the loop of processChain
\*   responses.push(response); lastResponse = response; i++
ChatGPT_sendPrompt_extract ==
    /\ pc = "sendPrompt_extract"
    /\ calls' = calls \cup {"waitForSelector", "$$", "innerText"}
    /\ \E r \in Replies :
         /\ replies' = Append(replies, r)
         /\ IF op = "chain"
            THEN /\ responses' = Append(responses, r)
                 /\ lastResponse' = r
                 /\ idx' = idx + 1
                 /\ pc' = "chain_loop"
                 /\ UNCHANGED <<op, result, ret, chain, fnArgs>>
            ELSE /\ ret' = <<r>>
                 /\ Return
                 /\ UNCHANGED chainVars
    /\ UNCHANGED <<cfg, bmVars, provider, envVars, i, sent, cur, tplVars, pageVars>>

\* sendPrompt(): no assistant message within 5s
ChatGPT_sendPrompt_extract_fail ==
    /\ pc = "sendPrompt_extract"
    /\ calls' = calls \cup {"waitForSelector"}
    /\ Throw("NoResponseError")
    /\ UNCHANGED <<cfg, bmVars, provider, envVars, i, chainVars, sent, replies, cur, ret, tplVars, pageVars>>

\* ------------------------------------------------------------ Automator.processChain
\* a caller calls processChain(prompts): responses = [], lastResponse = ""
Automator_processChain ==
    /\ pc = "idle"
    /\ \E c \in Chains : chain' = c
    /\ idx' = 1
    /\ responses' = <<>>
    /\ lastResponse' = <<>>
    /\ fnArgs' = <<>>
    /\ cur' = <<>>
    /\ NewCall
    /\ op' = "chain"
    /\ pc' = "chain_loop"
    /\ UNCHANGED <<cfg, bmVars, provider, envVars, tplVars, pageVars>>

\* faulty variant: every element is rendered from the empty string, lastResponse
\* is not used
processChain_iteration_ignoresLastResponse ==
    /\ op = "chain" /\ pc = "chain_loop"
    /\ idx <= Len(chain)
    /\ cur' = RenderItem(chain[idx], <<>>)
    /\ fnArgs' = Append(fnArgs, FnArgument(chain[idx], <<>>))
    /\ pc' = "processPrompt"
    /\ UNCHANGED <<cfg, bmVars, provider, envVars, op, result, calls, i,
                   chain, idx, lastResponse, responses, sent, replies, ret, tplVars, pageVars>>

\* one iteration of the loop up to `await this.processPrompt(currentPrompt)`
processChain_iteration ==
    /\ op = "chain" /\ pc = "chain_loop"
    /\ idx <= Len(chain)
    /\ cur' = RenderItem(chain[idx], lastResponse)
    /\ fnArgs' = Append(fnArgs, FnArgument(chain[idx], lastResponse))
    /\ pc' = "processPrompt"
    /\ UNCHANGED <<cfg, bmVars, provider, envVars, op, result, calls, i,
                   chain, idx, lastResponse, responses, sent, replies, ret, tplVars, pageVars>>

\* the loop is over: return responses
processChain_return ==
    /\ op = "chain" /\ pc = "chain_loop"
    /\ idx > Len(chain)
    /\ ret' = responses
    /\ Return
    /\ UNCHANGED <<cfg, bmVars, provider, envVars, calls, i, chainVars, sent, replies, cur, tplVars, pageVars>>

\* ------------------------------------------------------------ Automator.close
\* close(): browserManager.stop() when a manager exists; stop() closes the
\* context whenever this.context is set (this.browser is never assigned)
Automator_close ==
    /\ pc = "idle"
    /\ IF browserManager /\ context # "null"
       THEN /\ calls' = {"context.close"}
            /\ context' = "closed"
       ELSE /\ calls' = {}
            /\ UNCHANGED context
    /\ op' = "close"
    /\ result' = "ok"
    /\ i' = 0 /\ sent' = <<>> /\ replies' = <<>> /\ ret' = <<>> /\ cur' = <<>>
    /\ NoChain
    /\ UNCHANGED <<cfg, browserManager, orphans, initialized, provider, envVars, pc, tplVars, pageVars>>

\* ------------------------------------------------------------ specification
Next ==
    \/ Automator_init
    \/ BrowserManager_start
    \/ BrowserManager_start_fail
    \/ Automator_init_provider
    \/ BrowserManager_isAuthenticated
    \/ Automator_init_credentials
    \/ Automator_init_saveSession
    \/ ChatGPT_login_goto
    \/ ChatGPT_login_goto_fail
    \/ ChatGPT_login_checkExisting
    \/ ChatGPT_login_landing
    \/ ChatGPT_login_entry
    \/ ChatGPT_login_entry_fail
    \/ ChatGPT_login_poll_success
    \/ ChatGPT_login_poll_otpUnavailable
    \/ ChatGPT_login_poll_otp
    \/ ChatGPT_login_poll_tick
    \/ ChatGPT_login_wait
    \/ ChatGPT_login_wait_timeout
    \/ Site_showOtp
    \/ Site_authenticate
    \/ Call_processPrompt
    \/ Automator_processPrompt
    \/ ChatGPT_sendPrompt_submit
    \/ ChatGPT_sendPrompt_submit_fail
    \/ ChatGPT_sendPrompt_complete
    \/ ChatGPT_sendPrompt_timeout
    \/ ChatGPT_sendPrompt_extract
    \/ ChatGPT_sendPrompt_extract_fail
    \/ Automator_processChain
    \/ processChain_iteration
    \/ processChain_return
    \/ Automator_close

Spec == Init /\ [][Next]_vars

\* ------------------------------------------------------------ template substitution
\* the chain element and the previous response are drawn from all short
\* strings, and the literal example of the fallback
InitRender ==
    /\ tplItem \in {StrItem(s) : s \in StrUpTo(MaxTplLen) \cup {TastyTemplate}}
                   \cup {FnItem(f) : f \in FnNames}
    /\ tplPrev \in StrUpTo(MaxPrevLen) \cup {Mango}
    /\ tplOut = <<>>
    /\ cfg = [providerName |-> "chatgpt", email |-> "explicit", password |-> "explicit",
              method |-> "email", onOtpRequired |-> FALSE, sessionPath |-> FALSE]
    /\ site = "anon"
    /\ sessionFile = FALSE
    /\ InitAutomator

\* the element is rendered as one loop iteration of processChain renders it
Render ==
    /\ tplOut = <<>>
    /\ tplOut' = <<RenderItem(tplItem, tplPrev)>>
    /\ UNCHANGED <<cfg, bmVars, provider, envVars, op, pc, result, calls, i,
                   chainVars, sent, replies, cur, ret, tplItem, tplPrev, pageVars>>

NextRender == Render

SpecRender == InitRender /\ [][NextRender]_vars

\* ------------------------------------------------------------ properties
\* driver requests that act on the page
PageRequests ==
    {"goto", "waitForSelector", "fill", "click", "click:login_google_btn", "isVisible",
     "isDisabled", "waitForTimeout", "fill:otp_input", "click:otp_validate",
     "screenshot", "$$", "innerText"}

\* a processPrompt/processChain call that has not got past the provider check
StoppedAtProviderCheck ==
    /\ pc \in {"processPrompt", "chain_loop", "idle"}
    /\ pc = "idle" => result = "NotInitializedError"
    /\ calls = {}
    /\ sent = <<>>

\* C1: while init() has never been called (no BrowserManager was ever
\* created), a processPrompt call ends with the not-initialized error and
\* issues no request to the driver and sends no prompt to the page.
C1_PromptBeforeInitFails ==
    (~browserManager /\ op = "prompt") => StoppedAtProviderCheck

C1_Witness ==
    ~browserManager /\ op = "prompt" /\ pc = "idle" /\ result = "NotInitializedError"

\* C2 (as claimed): while no init() call has returned normally, every
\* processPrompt and processChain call, the empty chain included, ends with
\* the not-initialized error and never reaches the page.
C2_Claim ==
    (~initialized /\ op \in {"prompt", "chain"}) => StoppedAtProviderCheck

\* C3 (as claimed): close() never throws, and a close() called when the
\* context is not open (never launched, or closed already) sends no release
\* request to the browser context.
C3_Claim ==
    [][Automator_close =>
         /\ result' = "ok"
         /\ context # "open" => "context.close" \notin calls']_vars

\* C4 (as claimed): an init() without both an email and a password issues
\* no navigation at all and ends with the configuration error (unless the
\* launch or the provider name failed it before).
C4_Claim ==
    (op = "init" /\ ~HasCredentials) =>
        /\ "goto" \notin calls
        /\ pc = "idle" =>
             result \in {"ConfigurationError", "LaunchError", "UnknownProviderError"}

\* C4 (amended): an init() without both an email and a password never
\* enters login(): the only page requests it issues are the navigation and
\* the marker wait of isAuthenticated(); when that check reports an
\* authenticated session init() succeeds, otherwise it ends with the
\* configuration error (unless the launch or the provider name failed it).
C4_NoLoginWithoutCredentials ==
    (op = "init" /\ ~HasCredentials) =>
        /\ pc \in {"start", "grant", "isAuthenticated", "credentials", "idle"}
        /\ calls \cap PageRequests \subseteq {"goto", "waitForSelector"}
        /\ pc = "idle" =>
             /\ result \in {"ok", "ConfigurationError", "LaunchError", "UnknownProviderError"}
             /\ result = "ok" => site = "authed"
             /\ result = "ConfigurationError" => "goto" \in calls

C4_Witness ==
    /\ op = "init" /\ ~HasCredentials
    /\ pc = "idle" /\ result = "ConfigurationError"
    /\ "goto" \in calls

\* C5 (as claimed): when init() ends with the unknown-provider error no
\* session store was started: no browser was launched and no context is
\* left open.
C5_Claim ==
    (op = "init" /\ pc = "idle" /\ result = "UnknownProviderError") =>
        /\ "launchPersistentContext" \notin calls
        /\ context # "open"

\* C6: a polling iteration of login() that finds the OTP field visible (and
\* not the profile marker) while no OTP supplier is configured ends the
\* login with the OTP-unavailable error in that iteration: the loop counter
\* does not advance, and no code is asked for, filled or submitted.
AtPollWithOtpShown ==
    /\ op = "init" /\ pc = "login_poll" /\ i < PollLimit
    /\ site = "otp"
    /\ ~cfg.onOtpRequired

C6_OtpUnavailableFailsAtOnce ==
    [][AtPollWithOtpShown =>
         /\ pc' = "idle"
         /\ result' = "OtpUnavailableError"
         /\ i' = i
         /\ calls' \cap {"onOtpRequired", "fill:otp_input", "click:otp_validate"} = {}
         /\ "waitForTimeout" \in calls' => "waitForTimeout" \in calls]_vars

C6_Witness ==
    /\ op = "init" /\ pc = "idle" /\ result = "OtpUnavailableError"
    /\ i > 0 /\ i < PollLimit - 1
    /\ ~cfg.onOtpRequired

\* the element s with its first `tok` replaced by the literal text r
LiteralReplace(s, tok, r) ==
    LET k == IndexOf(s, tok)
    IN  SubSeq(s, 1, k - 1) \o r \o SubSeq(s, k + Len(tok), Len(s))

\* C7 (as claimed): a string element that contains {} is sent with the
\* previous response in place of the first {}, and what is sent contains no
\* {} any more.
C7_Claim ==
    (tplOut # <<>> /\ tplItem.kind = "string" /\ Includes(tplItem.s, Token1)) =>
        /\ tplOut[1] = LiteralReplace(tplItem.s, Token1, tplPrev)
        /\ ~Includes(tplOut[1], Token1)

\* a string whose only brace token is one {{}}
OnlyDoubleBraces(s) ==
    /\ Includes(s, Token2)
    /\ LET rest == LiteralReplace(s, Token2, <<>>)
       IN  \A k \in 1..Len(rest) : rest[k] \notin {"{", "}"}

\* C8 (as claimed): a string element whose only brace token is {{}} is sent
\* with the previous response in place of {{}}; "{{}} is tasty" after
\* "mango" is sent as "mango is tasty".
C8_Claim ==
    (tplOut # <<>> /\ tplItem.kind = "string" /\ OnlyDoubleBraces(tplItem.s)) =>
        /\ tplOut[1] = LiteralReplace(tplItem.s, Token2, tplPrev)
        /\ (tplItem.s = TastyTemplate /\ tplPrev = Mango) => tplOut[1] = MangoIsTasty

\* the response the page gave to the chain element before element k
ReplyBefore(k) == IF k = 1 THEN <<>> ELSE replies[k - 1]

\* C9: every function-valued element of a chain is called with exactly the
\* text the page returned for the element before it (the empty string for
\* the first), and what it returns is the prompt sent, unchanged.
C9_FunctionElementsGetRawResponse ==
    op = "chain" =>
        /\ \A k \in 1..Len(fnArgs) :
             chain[k].kind = "function" => fnArgs[k] = <<ReplyBefore(k)>>
        /\ \A k \in 1..Len(sent) :
             chain[k].kind = "function" => sent[k] = ApplyFn(chain[k].f, ReplyBefore(k))

C9_Witness ==
    /\ op = "chain" /\ Len(sent) >= 2
    /\ chain[2].kind = "function"
    /\ replies[1] # <<>>
    /\ Includes(sent[2], Token1)
    /\ sent[2] = Token1 \o replies[1]

\* C10: processChain submits the elements in list order and one at a time,
\* element k rendered from the page's reply to element k-1 (the empty string
\* for the first); on success it returns the replies, one per element, in
\* order; once a submission fails no later element is submitted.
C10_ChainInOrder ==
    op = "chain" =>
        /\ Len(replies) <= Len(chain)
        /\ Len(sent) \in {Len(replies), Len(replies) + 1}
        /\ \A k \in 1..Len(sent) : sent[k] = RenderItem(chain[k], ReplyBefore(k))
        /\ (pc = "idle" /\ result = "ok") =>
             /\ ret = replies
             /\ Len(ret) = Len(chain)
             /\ Len(sent) = Len(chain)
        /\ (pc = "idle" /\ result # "ok") =>
             /\ Len(replies) < Len(chain)
             /\ Len(sent) <= Len(replies) + 1

C10_Witness ==
    /\ op = "chain" /\ pc = "idle" /\ result = "ok"
    /\ Len(chain) >= 2
    /\ chain[2].kind = "string"
    /\ ret[1] # ret[2]
    /\ sent[2] # chain[2].s

\* ------------------------------------------------------------ init() and login() alone
\* the steps of ChatGPTProvider.login()
LoginStep ==
    \/ ChatGPT_login_goto
    \/ ChatGPT_login_goto_fail
    \/ ChatGPT_login_checkExisting
    \/ ChatGPT_login_landing
    \/ ChatGPT_login_entry
    \/ ChatGPT_login_entry_fail
    \/ ChatGPT_login_poll_success
    \/ ChatGPT_login_poll_otpUnavailable
    \/ ChatGPT_login_poll_otp
    \/ ChatGPT_login_poll_tick
    \/ ChatGPT_login_wait
    \/ ChatGPT_login_wait_timeout

\* an Automator on which only init() is called
NextLogin ==
    \/ Automator_init
    \/ BrowserManager_start
    \/ BrowserManager_start_fail
    \/ Automator_init_provider
    \/ BrowserManager_isAuthenticated
    \/ Automator_init_credentials
    \/ Automator_init_saveSession
    \/ LoginStep
    \/ Site_showOtp
    \/ Site_authenticate

\* every driver call of login() and the passcode supplier return: a step of
\* login() that stays possible is taken.  Nothing is assumed of the web
\* application or of the caller.
SpecLogin == Init /\ [][NextLogin]_vars /\ WF_vars(LoginStep)

\* ------------------------------------------------------------ a BrowserManager used by itself
\* BrowserManager is an exported class: its public methods can be called in
\* any order on `new BrowserManager()`.  Each method runs to its end before
\* the caller calls the next.
DefaultConfig ==
    [providerName |-> "chatgpt", email |-> "none", password |-> "none",
     method |-> "email", onOtpRequired |-> FALSE, sessionPath |-> FALSE]

\* the state after `new BrowserManager()`: context = null, page = null
InitStore ==
    /\ cfg = DefaultConfig
    /\ site \in {"anon", "authed"}
    /\ sessionFile \in BOOLEAN
    /\ InitAutomator
    /\ tplItem = StrItem(<<>>)
    /\ tplPrev = <<>>
    /\ tplOut = <<>>

\* this.page is assigned at the end of a start() that launched the context
PageAssigned == context # "null"

\* start(headless, sessionPath), called directly: the context launches or
\* the launch throws; cookies are imported when the session file exists; the
\* first page of the context is taken, or a new one opened when it has none
Store_start ==
    /\ pc = "idle"
    /\ op' = "start"
    /\ \E sessionPath \in BOOLEAN, launched \in BOOLEAN, hasPage \in BOOLEAN :
         IF launched
         THEN /\ context = "open" => orphans < MaxOrphans
              /\ calls' = {"launchPersistentContext"}
                             \cup (IF sessionPath /\ sessionFile THEN {"addCookies"} ELSE {})
                             \cup (IF hasPage THEN {} ELSE {"newPage"})
              /\ context' = "open"
              /\ orphans' = IF context = "open" THEN orphans + 1 ELSE orphans
              /\ result' = "ok"
         ELSE /\ calls' = {"launchPersistentContext"}
              /\ result' = "LaunchError"
              /\ UNCHANGED <<context, orphans>>
    /\ ret' = <<>>
    /\ UNCHANGED <<cfg, browserManager, initialized, provider, envVars, pc, i,
                   chainVars, sent, replies, cur, tplVars, pageVars>>

\* stop(), called directly
Store_stop ==
    /\ pc = "idle"
    /\ op' = "stop"
    /\ IF context # "null"
       THEN calls' = {"context.close"} /\ context' = "closed"
       ELSE calls' = {} /\ UNCHANGED context
    /\ result' = "ok"
    /\ ret' = <<>>
    /\ UNCHANGED <<cfg, browserManager, orphans, initialized, provider, envVars, pc, i,
                   chainVars, sent, replies, cur, tplVars, pageVars>>

\* saveSession(path), called directly: storageState on a context that was
\* closed is rejected by the driver
Store_saveSession ==
    /\ pc = "idle"
    /\ op' = "saveSession"
    /\ CASE context = "null" ->
              calls' = {} /\ result' = "ok" /\ UNCHANGED sessionFile
         [] context = "open" ->
              calls' = {"storageState"} /\ result' = "ok" /\ sessionFile' = TRUE
         [] context = "closed" ->
              calls' = {"storageState"} /\ result' = "DriverError" /\ UNCHANGED sessionFile
    /\ ret' = <<>>
    /\ UNCHANGED <<cfg, bmVars, provider, site, pc, i, chainVars, sent, replies, cur, tplVars, pageVars>>

\* faulty variant: a failed navigation is thrown to the caller
Store_isAuthenticated_navigationThrows ==
    /\ pc = "idle"
    /\ op' = "isAuthenticated"
    /\ IF ~PageAssigned
       THEN calls' = {} /\ result' = "BrowserNotStartedError" /\ ret' = <<>>
       ELSE \E navigated \in BOOLEAN, seen \in BOOLEAN :
              /\ navigated => context = "open"
              /\ seen => navigated /\ site = "authed"
              /\ calls' = {"goto"} \cup (IF navigated THEN {"waitForSelector"} ELSE {})
              /\ IF navigated
                 THEN result' = "ok" /\ ret' = <<seen>>
                 ELSE result' = "NavigationError" /\ ret' = <<>>
    /\ UNCHANGED <<cfg, bmVars, provider, envVars, pc, i, chainVars, sent, replies, cur, tplVars, pageVars>>

\* isAuthenticated(url, selector), called directly:
\*   if (!this.page) throw new Error("Browser not started");
\*   try { goto; try { waitForSelector; return true } catch { return false } }
\*   catch { return false }
\* the navigation fails on a closed context and may fail on an open one; the
\* marker is found only on a page that shows it
Store_isAuthenticated ==
    /\ pc = "idle"
    /\ op' = "isAuthenticated"
    /\ IF ~PageAssigned
       THEN calls' = {} /\ result' = "BrowserNotStartedError" /\ ret' = <<>>
       ELSE \E navigated \in BOOLEAN, seen \in BOOLEAN :
              /\ navigated => context = "open"
              /\ seen => navigated /\ site = "authed"
              /\ calls' = {"goto"} \cup (IF navigated THEN {"waitForSelector"} ELSE {})
              /\ result' = "ok"
              /\ ret' = <<seen>>
    /\ UNCHANGED <<cfg, bmVars, provider, envVars, pc, i, chainVars, sent, replies, cur, tplVars, pageVars>>

NextStore ==
    \/ Store_start
    \/ Store_stop
    \/ Store_saveSession
    \/ Store_isAuthenticated

SpecStore == InitStore /\ [][NextStore]_vars

\* ------------------------------------------------------------ overlapping processPrompt calls
\* processPrompt is an async method: a caller that does not await it (as in
\* Promise.all([bot.processPrompt(a), bot.processPrompt(b)])) has two calls
\* in flight, and the event loop runs one of them from one await to the
\* next.  Each caller submits a prompt of its own, named after the caller.
automatorVars ==
    <<cfg, bmVars, provider, envVars, op, pc, result, calls, i, chainVars,
      sent, replies, cur, ret, tplVars>>

\* the Automator after an init() that found the profile authenticated
InitPage ==
    /\ cfg = DefaultConfig
    /\ site = "authed"
    /\ sessionFile = FALSE
    /\ browserManager = TRUE
    /\ context = "open"
    /\ provider = "current"
    /\ orphans = 0
    /\ initialized = TRUE
    /\ op = "init"
    /\ pc = "idle"
    /\ result = "ok"
    /\ calls = {"launchPersistentContext", "grantPermissions", "goto", "waitForSelector"}
    /\ i = 0
    /\ chain = <<>>
    /\ idx = 1
    /\ lastResponse = <<>>
    /\ responses = <<>>
    /\ sent = <<>>
    /\ replies = <<>>
    /\ fnArgs = <<>>
    /\ cur = <<>>
    /\ ret = <<>>
    /\ NoCallers
    /\ tplItem = StrItem(<<>>)
    /\ tplPrev = <<>>
    /\ tplOut = <<>>

\* the call of caller c ends with error err
CallThrows(c, err) ==
    /\ callResult' = [callResult EXCEPT ![c] = err]
    /\ callPc' = [callPc EXCEPT ![c] = "idle"]

CallGoes(c, position) ==
    /\ callPc' = [callPc EXCEPT ![c] = position]
    /\ UNCHANGED callResult

\* caller c calls processPrompt: nothing in it looks for a call in flight;
\* the provider check passes and sendPrompt() runs up to its first await
Page_call(c) ==
    /\ callPc[c] = "idle"
    /\ provider # "null"
    /\ callPc' = [callPc EXCEPT ![c] = "fill"]
    /\ callResult' = [callResult EXCEPT ![c] = "pending"]
    /\ observed' = [observed EXCEPT ![c] = NothingObserved]
    /\ submitted' = [submitted EXCEPT ![c] = "none"]
    /\ msgsAtSubmit' = [msgsAtSubmit EXCEPT ![c] = 0]
    /\ returned' = [returned EXCEPT ![c] = 0]
    /\ UNCHANGED <<automatorVars, textarea, messages, replyDue>>

\* sendPrompt(): handleDialogs(), waitForSelector(textarea), fill(textarea, prompt)
Page_fill(c) ==
    /\ callPc[c] = "fill"
    /\ textarea' = c
    /\ CallGoes(c, "click")
    /\ UNCHANGED <<automatorVars, observed, submitted, chatVars>>

Page_fill_fail(c) ==
    /\ callPc[c] = "fill"
    /\ CallThrows(c, "PromptSubmissionError")
    /\ UNCHANGED <<automatorVars, observed, textarea, submitted, chatVars>>

\* sendPrompt(): waitForSelector(send_btn), isDisabled, click(send_btn): the
\* page submits what the input field holds and empties it, and owes a reply
\* from then on; with an empty field the send control stays disabled and the
\* click times out
Page_click(c) ==
    /\ callPc[c] = "click"
    /\ textarea # "empty"
    /\ submitted' = [submitted EXCEPT ![c] = textarea]
    /\ textarea' = "empty"
    /\ msgsAtSubmit' = [msgsAtSubmit EXCEPT ![c] = messages]
    /\ replyDue' = TRUE
    /\ CallGoes(c, "indicator")
    /\ UNCHANGED <<automatorVars, observed, messages, returned>>

Page_click_fail(c) ==
    /\ callPc[c] = "click"
    /\ CallThrows(c, "PromptSubmissionError")
    /\ UNCHANGED <<automatorVars, observed, textarea, submitted, chatVars>>

\* what the two waits on the generating indicator can meet: it came and
\* went ("hidden"), it did not come within 5s ("absent"), it came and was
\* still there after 120s ("stuck")
IndicatorOutcomes == {"hidden", "absent", "stuck"}

\* sendPrompt(): try { waitForSelector(stop_btn, 5s);
\*                     waitForSelector(stop_btn, hidden, 120s) } catch ...
\* an error of either wait enters the same catch.  The indicator goes away
\* only when a generation has run, which has put its message on the page.
Page_indicator(c) ==
    /\ callPc[c] = "indicator"
    /\ \E o \in IndicatorOutcomes :
         /\ o = "hidden" => messages > msgsAtSubmit[c]
         /\ observed' = [observed EXCEPT ![c].indicator = o]
         /\ CallGoes(c, IF o = "hidden" THEN "extract" ELSE "catch")
    /\ UNCHANGED <<automatorVars, textarea, submitted, chatVars>>

\* sendPrompt(): catch (e) { if (await isVisible(send_btn)) { /* done */ }
\*                           else throw new Error("Timeout waiting ...") }
Page_catch(c) ==
    /\ callPc[c] = "catch"
    /\ \E visible \in BOOLEAN :
         IF visible
         THEN /\ observed' = [observed EXCEPT ![c].send = "visible"]
              /\ CallGoes(c, "extract")
         ELSE /\ observed' = [observed EXCEPT ![c].send = "hidden"]
              /\ CallThrows(c, "ResponseTimeoutError")
    /\ UNCHANGED <<automatorVars, textarea, submitted, chatVars>>

\* sendPrompt(): waitForSelector(assistant_msg), $$(assistant_msg), and the
\* text of assistantMsgs[assistantMsgs.length - 1] is returned: the last
\* assistant message the page holds at that moment
Page_extract(c) ==
    /\ callPc[c] = "extract"
    /\ messages > 0
    /\ returned' = [returned EXCEPT ![c] = messages]
    /\ callResult' = [callResult EXCEPT ![c] = "ok"]
    /\ callPc' = [callPc EXCEPT ![c] = "idle"]
    /\ UNCHANGED <<automatorVars, observed, textarea, submitted, messages, replyDue,
                   msgsAtSubmit>>

\* sendPrompt(): no assistant message within 5s, or a driver call fails
Page_extract_fail(c) ==
    /\ callPc[c] = "extract"
    /\ CallThrows(c, "NoResponseError")
    /\ UNCHANGED <<automatorVars, observed, textarea, submitted, chatVars>>

\* the web application finishes a generation: the assistant message of the
\* reply it owes is appended to the conversation
Site_reply ==
    /\ replyDue
    /\ messages < MaxMessages
    /\ messages' = messages + 1
    /\ replyDue' = FALSE
    /\ UNCHANGED <<automatorVars, callPc, observed, callResult, textarea, submitted,
                   msgsAtSubmit, returned>>

NextPage ==
    \/ Site_reply
    \/ \E c \in Callers : Page_call(c)
    \/ \E c \in Callers : Page_fill(c)
    \/ \E c \in Callers : Page_fill_fail(c)
    \/ \E c \in Callers : Page_click(c)
    \/ \E c \in Callers : Page_click_fail(c)
    \/ \E c \in Callers : Page_indicator(c)
    \/ \E c \in Callers : Page_catch(c)
    \/ \E c \in Callers : Page_extract(c)
    \/ \E c \in Callers : Page_extract_fail(c)

SpecPage == InitPage /\ [][NextPage]_vars

\* the requests by which login() looks for the profile marker
MarkerChecks == {"waitForSelector", "isVisible"}

\* C11: for either method, login() returns true only from a step that has
\* just found the profile marker on the page: the check for an existing
\* session, a poll of the loop, or the wait after the passcode or after the
\* loop; the credential entry never returns by itself.
C11_SuccessOnlyWhenMarkerSeen ==
    [][(op = "init" /\ pc # "login_done" /\ pc' = "login_done") =>
         /\ site = "authed" /\ site' = "authed"
         /\ pc \in {"login_check", "login_poll", "login_otp_wait"}
         /\ calls' \cap MarkerChecks # {}]_vars

C11_Witness ==
    /\ op = "init" /\ pc = "login_done"
    /\ cfg.method = "google"
    /\ "click:login_google_btn" \in calls
    /\ "click:otp_validate" \in calls
    /\ site = "authed"

\* the errors with which login() fails
LoginErrors ==
    {"LoginUIError", "CredentialsRequiredError", "LoginError", "OtpUnavailableError",
     "LoginTimeoutError"}

\* C13 (as claimed): whenever login() fails (no login button on the landing
\* page, no credentials, a failing entry step, a passcode wanted without a
\* supplier, no marker in time) a screenshot was requested before the error
\* left login().
C13_Claim ==
    (op = "init" /\ pc = "idle" /\ result \in LoginErrors) => "screenshot" \in calls

\* C15: during init() the session state is written in exactly one place:
\* by the step that follows a login() that returned true, and only when a
\* session path is configured; that step always writes it when the path is
\* configured.  No other step of init(), failing or not, writes it.
C15_SessionSavedOnlyAfterLogin ==
    [][/\ (("storageState" \in calls' /\ "storageState" \notin calls) \/ sessionFile' # sessionFile) =>
            /\ op = "init" /\ pc = "login_done" /\ cfg.sessionPath
            /\ site = "authed"
            /\ pc' = "idle" /\ result' = "ok" /\ sessionFile'
       /\ (op = "init" /\ pc = "login_done" /\ pc' = "idle") =>
            /\ cfg.sessionPath => ("storageState" \in calls' /\ sessionFile')
            /\ ~cfg.sessionPath => ("storageState" \notin calls' /\ sessionFile' = sessionFile)]_vars

C15_Witness ==
    /\ op = "init" /\ pc = "idle" /\ result = "ok"
    /\ cfg.sessionPath
    /\ "storageState" \in calls
    /\ sessionFile

\* the errors with which sendPrompt() fails
PromptErrors == {"PromptSubmissionError", "ResponseTimeoutError", "NoResponseError"}

\* C16: no step of a processPrompt call, failing steps included, changes
\* the Automator's BrowserManager, context or provider; the call submits its
\* prompt at most once; and after a failure the provider is still there, so
\* the next processPrompt passes the provider check and goes to the page.
C16_FailedPromptLeavesSession ==
    [][(op = "prompt" /\ pc # "idle") =>
         /\ UNCHANGED <<cfg, browserManager, context, provider, orphans, initialized>>
         /\ Len(sent') <= 1
         /\ (pc' = "idle" /\ result' \in PromptErrors) => provider' # "null"
         /\ (pc = "processPrompt" /\ pc' # pc /\ provider # "null") => pc' = "sendPrompt"]_vars

C16_Witness ==
    /\ op = "prompt" /\ pc = "idle" /\ result = "ResponseTimeoutError"
    /\ Len(sent) = 1
    /\ provider = "current" /\ context = "open"

\* C19 (as claimed): whatever init() and close() calls were made, no
\* context that the Automator no longer references is open, and the provider
\* is the one built on the BrowserManager the Automator references.
C19_Claim ==
    /\ orphans = 0
    /\ provider \in {"null", "current"}

\* C20: a dismissal that fails inside handleDialogs() changes nothing for
\* the caller: the step of login() that navigates and dismisses always goes
\* on to the check for an existing session, and the step of sendPrompt()
\* that dismisses and submits always submits the prompt and goes on to wait
\* for the response; neither ends the call nor sets an error.
C20_DialogFailureSwallowed ==
    [][/\ ChatGPT_login_goto =>
            /\ pc' = "login_check"
            /\ result' = result
       /\ ChatGPT_sendPrompt_submit =>
            /\ pc' = "sendPrompt_wait"
            /\ result' = result
            /\ sent' = Append(sent, cur)]_vars

\* login() is past handleDialogs() although a dismissal click was issued
\* and no settle wait followed it
C20_Witness ==
    /\ op = "init" /\ pc = "login_check"
    /\ "click" \in calls
    /\ "waitForTimeout" \notin calls
    /\ result = "pending"

\* C18: when every driver call and the passcode supplier return, a login()
\* that was entered comes to an end, returning true or throwing; its loop
\* counter never passes 30, and once the loop has run 30 times the only step
\* left is the one last wait for the marker, which returns or throws.
C18_LoginTerminates ==
    /\ [](i <= PollLimit)
    /\ [][(op = "init" /\ pc = "login_poll" /\ i = PollLimit /\ pc' # pc) =>
            pc' \in {"login_done", "idle"}]_vars
    /\ (op = "init" /\ pc = "login") ~> (pc \in {"login_done", "idle"})

\* login() ended after all 30 iterations and the last wait
C18_Witness ==
    /\ op = "init" /\ pc = "idle"
    /\ result = "LoginTimeoutError"
    /\ i = PollLimit

\* C12 (as claimed): in every state of the BrowserManager, isAuthenticated
\* returns true or false and never throws.
C12_Claim ==
    op = "isAuthenticated" => (result = "ok" /\ ret \in {<<TRUE>>, <<FALSE>>})

\* C12 (amended): isAuthenticated throws "Browser not started", before any
\* navigation, exactly when no start() has produced a page; on a started
\* BrowserManager it never throws: it returns true only when the page showed
\* the marker within the wait and false otherwise, a failed navigation (as
\* on a context that was closed) included.
C12_NeverThrowsOnceStarted ==
    op = "isAuthenticated" =>
        IF ~PageAssigned
        THEN result = "BrowserNotStartedError" /\ calls = {}
        ELSE /\ result = "ok"
             /\ ret \in {<<TRUE>>, <<FALSE>>}
             /\ "goto" \in calls
             /\ ret = <<TRUE>> =>
                  (site = "authed" /\ context = "open" /\ "waitForSelector" \in calls)
             /\ context = "closed" => ret = <<FALSE>>

\* isAuthenticated answered false after a navigation that failed
C12_Witness ==
    /\ op = "isAuthenticated" /\ PageAssigned
    /\ "waitForSelector" \notin calls
    /\ result = "ok" /\ ret = <<FALSE>>

InFlight(c) == callPc[c] # "idle"

\* C14 (as claimed): at no time do two calls have steps pending on the
\* page, and the click of a call submits the prompt that this call filled in.
C14_Claim ==
    /\ \A c1, c2 \in Callers : (InFlight(c1) /\ InFlight(c2)) => c1 = c2
    /\ \A c \in Callers : submitted[c] \in {"none", c}

\* the call of c went on to the extraction of the response
ReachedExtraction(c) ==
    \/ callPc[c] = "extract"
    \/ callPc[c] = "idle" /\ callResult[c] \in {"ok", "NoResponseError"}

\* C17 (as claimed): a sendPrompt that goes on to the extraction without
\* having seen the indicator go away has seen no indicator within 5s and the
\* send control visible; a call whose indicator came and was still there
\* after 120s ends with the response-timeout error.
C17_Claim ==
    \A c \in Callers :
        /\ (ReachedExtraction(c) /\ observed[c].indicator # "hidden") =>
              (observed[c].indicator = "absent" /\ observed[c].send = "visible")
        /\ (observed[c].indicator = "stuck" /\ callPc[c] = "idle") =>
              callResult[c] = "ResponseTimeoutError"

\* C21 (as claimed): the text a sendPrompt returns is that of an assistant
\* message appended after its prompt was submitted, never that of a message
\* the page held already, whichever way the end of the generation was
\* detected.
C21_Claim ==
    \A c \in Callers :
        (callPc[c] = "idle" /\ callResult[c] = "ok") => returned[c] > msgsAtSubmit[c]

====
